---- MODULE Spec2Model ----
(***************************************************************************)
(* BackerUpper (backerupper.py, cli.py): archive naming, rotation and      *)
(* retention.  File names are sequences of one-character strings, so that  *)
(* rsplit, glob matching, int(), str(), strftime and the lexicographic     *)
(* sort act on the characters the program sees.                            *)
(***************************************************************************)
EXTENDS Integers, Sequences, FiniteSets, TLC

\* ------------------------------------------------------------------------
\* Bounds of the model
\* ------------------------------------------------------------------------

\* Invocations in one behaviour of Spec (any arguments, any failure).
MaxRuns == 3

\* Invocations in one behaviour of SpecCli (command line and bare calls).
MaxCalls == 2

\* Largest retention count drawn, the default apart.
MaxKeep == 2

\* Invocations in one behaviour of SpecRepeat (one backup run repeatedly).
MaxRepeat == 5

\* The number of invocations in a behaviour of SpecSequential.
MaxSeqRuns == 4

\* ------------------------------------------------------------------------
\* Characters and strings
\* ------------------------------------------------------------------------

\* The characters that occur in the names, in code point order.
Alphabet ==
    << "-", ".", "0", "1", "2", "3", "4", "5", "6", "7", "8", "9",
       "T", "Z", "a", "e", "g", "n", "o", "p", "r", "s", "t", "x", "z" >>

Ord(c) == CHOOSE i \in 1..Len(Alphabet) : Alphabet[i] = c

Digits == << "0", "1", "2", "3", "4", "5", "6", "7", "8", "9" >>

IsDigit(c) == \E i \in 1..10 : Digits[i] = c

DigitVal(c) == (CHOOSE i \in 1..10 : Digits[i] = c) - 1

\* Python's str < str: the first differing character decides, a proper
\* prefix is smaller.
RECURSIVE StrLess(_, _)
StrLess(a, b) ==
    IF b = << >> THEN FALSE
    ELSE IF a = << >> THEN TRUE
    ELSE IF Head(a) = Head(b) THEN StrLess(Tail(a), Tail(b))
    ELSE Ord(Head(a)) < Ord(Head(b))

\* str(n) for an integer n.
RECURSIVE StrNat(_)
StrNat(n) ==
    IF n < 10 THEN << Digits[n + 1] >>
    ELSE StrNat(n \div 10) \o << Digits[(n % 10) + 1] >>

Str(n) == IF n < 0 THEN << "-" >> \o StrNat(0 - n) ELSE StrNat(n)

\* int(s) succeeds on an optional sign followed by one or more digits;
\* anything else raises ValueError.
AllDigits(s) == s # << >> /\ \A i \in 1..Len(s) : IsDigit(s[i])

IsInt(s) ==
    \/ AllDigits(s)
    \/ s # << >> /\ Head(s) = "-" /\ AllDigits(Tail(s))

RECURSIVE IntNat(_)
IntNat(s) ==
    IF s = << >> THEN 0
    ELSE 10 * IntNat(SubSeq(s, 1, Len(s) - 1)) + DigitVal(s[Len(s)])

ParseInt(s) == IF Head(s) = "-" THEN 0 - IntNat(Tail(s)) ELSE IntNat(s)

\* n rendered in exactly w digits with leading zeros (strftime's %S, %f).
RECURSIVE Pad(_, _)
Pad(n, w) ==
    IF w = 0 THEN << >>
    ELSE Pad(n \div 10, w - 1) \o << Digits[(n % 10) + 1] >>

\* ".".join(parts)
RECURSIVE Join(_)
Join(parts) ==
    IF Len(parts) = 0 THEN << >>
    ELSE IF Len(parts) = 1 THEN parts[1]
    ELSE parts[1] \o << "." >> \o Join(Tail(parts))

\* s.rsplit(".", n): split at the last n dots, fewer when s has fewer.
LastDot(s) ==
    IF \E i \in 1..Len(s) : s[i] = "."
    THEN CHOOSE i \in 1..Len(s) :
             s[i] = "." /\ \A j \in (i + 1)..Len(s) : s[j] # "."
    ELSE 0

RECURSIVE RSplit(_, _)
RSplit(s, n) ==
    IF n = 0 \/ LastDot(s) = 0 THEN << s >>
    ELSE RSplit(SubSeq(s, 1, LastDot(s) - 1), n - 1)
             \o << SubSeq(s, LastDot(s) + 1, Len(s)) >>

\* fnmatch of a name against a pattern whose only special character is "*",
\* which stands for any run of characters, dots included.
RECURSIVE FnMatch(_, _)
FnMatch(name, pat) ==
    IF pat = << >> THEN name = << >>
    ELSE IF Head(pat) = "*"
         THEN \E k \in 0..Len(name) :
                  FnMatch(SubSeq(name, k + 1, Len(name)), Tail(pat))
    ELSE /\ name # << >>
         /\ Head(name) = Head(pat)
         /\ FnMatch(Tail(name), Tail(pat))

\* ------------------------------------------------------------------------
\* Paths, files and the clock
\* ------------------------------------------------------------------------

DataDir == "/data"

BackupDir == "/backup"

Path(d, n) == [dir |-> d, name |-> n]

Test == << "t", "e", "s", "t" >>

TestTxt == << "t", "e", "s", "t", ".", "t", "x", "t" >>

Nope == << "n", "o", "p", "e" >>

\* The sources on disk: the directory /data/test and the file /data/test.txt.
SourceDir == Path(DataDir, Test)

SourceFile == Path(DataDir, TestTxt)

\* A source path that does not exist.
SourceMissing == Path(DataDir, Nope)

\* What a file holds: the run that wrote it (0: not an archive) and whether
\* the writer finished it.
Content(r, w) == [run |-> r, whole |-> w]

\* The wall clock: seconds since midnight and microseconds.  The first run
\* starts at 09:43:23.999998, so that the runs cross a change of second.
StartClock == [s |-> (9 * 60 + 43) * 60 + 23, us |-> 999998]

\* The clock one microsecond later.
Tick(c) ==
    IF c.us = 999999 THEN [s |-> c.s + 1, us |-> 0]
    ELSE [s |-> c.s, us |-> c.us + 1]

\* datetime.now(timezone.utc).strftime("%Y-%m-%dT%H-%M-%S-%fZ"), on the day
\* 2024-11-03, at the time of day c.
strftime(c) ==
    << "2", "0", "2", "4", "-", "1", "1", "-", "0", "3", "T" >>
        \o Pad((c.s \div 3600) % 24, 2) \o << "-" >>
        \o Pad((c.s \div 60) % 60, 2) \o << "-" >>
        \o Pad(c.s % 60, 2) \o << "-" >>
        \o Pad(c.us, 6) \o << "Z" >>

\* ------------------------------------------------------------------------
\* State
\* ------------------------------------------------------------------------

VARIABLES
    fs,       \* the file system: path -> content
    clock,    \* the wall clock
    runs,     \* invocations started so far
    argv,     \* the invocation as passed: [caller, kwargs]
    kwargs,   \* **kwargs of __call__, as updated by it
    pc,       \* where the invocation stands
    todo,     \* archives still to rename (rotation) or unlink (retention)
    err,      \* the exception that ended the invocation, "none" if none
    status,   \* the exit status of the command line process, -1 if none yet
    fs0       \* the file system when the invocation started

vars == << fs, clock, runs, argv, kwargs, pc, todo, err, status, fs0 >>

\* kwargs.get(key, default)
Get(kw, key, default) == IF key \in DOMAIN kw THEN kw[key] ELSE default

\* dict.update(key=value)
Update(kw, key, value) == (key :> value) @@ kw

\* fs with path p written (created or replaced) with content c.
WriteFile(files, p, c) == (p :> c) @@ files

\* fs without path p.
RemoveFile(files, p) == [q \in (DOMAIN files) \ {p} |-> files[q]]

\* Path.rename on POSIX: the target, if it exists, is replaced.
RenameFile(files, p, q) == WriteFile(RemoveFile(files, p), q, files[p])

\* ------------------------------------------------------------------------
\* BackerUpper's functions
\* ------------------------------------------------------------------------

\* resolve_source as it would be without strict=True: a source that does
\* not exist is resolved like any other.
resolve_source_error_lenient(files, kw) ==
    IF "source" \notin DOMAIN kw THEN "TypeError" ELSE "none"

\* BackerUpper.resolve_source: the exception it raises, "none" if it
\* returns the resolved source.
resolve_source_error(files, kw) ==
    IF "source" \notin DOMAIN kw THEN "TypeError"
    ELSE IF kw["source"] \notin DOMAIN files THEN "FileNotFoundError"
    ELSE "none"

resolve_source(kw) == kw["source"]

\* BackerUpper.resolve_destination: Path(None) raises TypeError.
resolve_destination_error(kw) ==
    IF Get(kw, "destination", kw["source"].dir) = "None" THEN "TypeError"
    ELSE "none"

\* BackerUpper.resolve_destination at wall clock time now: the archive path
\* <destination>/<source.name>.<marker>.<ext>.
resolve_destination(kw, now) ==
    LET source == kw["source"]
        destination == Get(kw, "destination", source.dir)
        marker == IF Get(kw, "sequential", FALSE) THEN Str(1)
                  ELSE strftime(now)
        ext == IF Get(kw, "uncompressed", FALSE) THEN << "t", "a", "r" >>
               ELSE << "t", "g", "z" >>
    IN  Path(destination,
             source.name \o << "." >> \o marker \o << "." >> \o ext)

\* The pattern as it would be without the extension: stem.*
pattern_any_extension(archive) ==
    Join(<< RSplit(archive.name, 2)[1], << "*" >> >>)

\* The pattern of BackerUpper.gather_matching_archives.
pattern_of(archive) ==
    LET parts == RSplit(archive.name, 2)
    IN  Join(<< parts[1], << "*" >>, parts[Len(parts)] >>)

\* The matcher as it would be if it left out the names whose marker is not
\* an integer.
gather_matching_archives_integers(files, kw) ==
    LET archive == kw["archive"]
    IN  { p \in DOMAIN files :
            /\ p.dir = archive.dir
            /\ FnMatch(p.name, pattern_of(archive))
            /\ IsInt(RSplit(p.name, 2)[2]) }

\* BackerUpper.gather_matching_archives: the paths in the archive's
\* directory whose names match the pattern.
gather_matching_archives(files, kw) ==
    LET archive == kw["archive"]
    IN  { p \in DOMAIN files :
            p.dir = archive.dir /\ FnMatch(p.name, pattern_of(archive)) }

\* item.name.rsplit(".", 2)[1]
marker_of(item) == RSplit(item.name, 2)[2]

\* The lists sorted(items, key=lambda i: i[0], reverse=...) can return: the
\* sort is stable and glob's order is the directory's, so equal markers come
\* in any order.
RECURSIVE sorted_by_marker(_, _)
sorted_by_marker(items, reverse) ==
    IF items = {} THEN { << >> }
    ELSE LET first ==
                 { p \in items : \A q \in items :
                     IF reverse
                     THEN ParseInt(marker_of(q)) <= ParseInt(marker_of(p))
                     ELSE ParseInt(marker_of(p)) <= ParseInt(marker_of(q)) }
         IN  UNION { { << p >> \o rest :
                         rest \in sorted_by_marker(items \ {p}, reverse) } :
                     p \in first }

\* sorted(archives, reverse=True) for paths of one directory: by name,
\* largest first.
RECURSIVE sorted_reverse(_)
sorted_reverse(items) ==
    IF items = {} THEN << >>
    ELSE LET top == CHOOSE p \in items :
                        \A q \in items \ {p} : StrLess(q.name, p.name)
         IN  << top >> \o sorted_reverse(items \ {top})

\* The rotation as it would be if it raised the marker by two.
new_name_plus_two(item) ==
    LET parts == RSplit(item.name, 2)
    IN  Path(item.dir,
             Join(<< parts[1], Str(ParseInt(parts[2]) + 2), parts[3] >>))

\* The new name as it would be without the + 1 of line 94: the old name.
new_name_unchanged(item) == Path(item.dir, Join(RSplit(item.name, 2)))

\* The new name of an archive in the rotation (lines 93-95).
new_name(item) ==
    LET parts == RSplit(item.name, 2)
    IN  Path(item.dir,
             Join(<< parts[1], Str(ParseInt(parts[2]) + 1), parts[3] >>))

\* The rotation as it would be without reverse=True: smallest marker first.
rotation_order_ascending(archives) == sorted_by_marker(archives, FALSE)

\* The lists of lines 86-87: largest marker first.
rotation_order(archives) == sorted_by_marker(archives, TRUE)

\* The default of kwargs.get("retention_count", 10).
DefaultKeep == 10

\* The retention count as it would be if the argument were not read.
retention_count_ignored(kw) == DefaultKeep

\* int(kwargs.get("retention_count", 10))
retention_count(kw) == Get(kw, "retention_count", DefaultKeep)

\* Line 111 as it would be with < for <=: a count of zero keeps nothing.
nothing_to_remove_negative(keep) == keep < 0

\* Line 111: a retention count of zero or less removes nothing.
nothing_to_remove(keep) == keep <= 0

\* Line 11 as it would be if it looked for the source alone.
no_arguments_no_source(kw) == "source" \notin DOMAIN kw

\* Line 11: not args and not kwargs.
no_arguments(kw) == DOMAIN kw = {}

\* ------------------------------------------------------------------------
\* Invocations
\* ------------------------------------------------------------------------

\* The retention counts drawn: 0 keeps everything, as every count <= 0.
Keeps == 0..MaxKeep

\* A keyword argument that may be left out.
Opt(present, key, value) == IF present THEN key :> value ELSE << >>

\* backerupper(source=..., ...) called from Python: sequential and
\* uncompressed are passed when true.
ApiCall(source, sequential, uncompressed, keep) ==
    [ caller |-> "api",
      kwargs |-> ("source" :> source)
                 @@ Opt(sequential, "sequential", TRUE)
                 @@ Opt(uncompressed, "uncompressed", TRUE)
                 @@ Opt(keep # DefaultKeep, "retention_count", keep) ]

\* cli.py run as a script: main(**vars(argv)) passes every option, the
\* destination as None when --to is left out.
CliCall(source, destination, sequential, uncompressed, keep, verbose, debug) ==
    [ caller |-> "cli",
      kwargs |-> ("source" :> source)
                 @@ ("destination" :> destination)
                 @@ ("retention_count" :> keep)
                 @@ ("sequential" :> sequential)
                 @@ ("uncompressed" :> uncompressed)
                 @@ ("verbose" :> verbose)
                 @@ ("debug" :> debug) ]

\* backerupper(source=..., destination=..., ...) called from Python.
ApiCallTo(source, destination, sequential, keep) ==
    [ caller |-> "api",
      kwargs |-> ("source" :> source)
                 @@ ("destination" :> destination)
                 @@ Opt(sequential, "sequential", TRUE)
                 @@ Opt(keep # DefaultKeep, "retention_count", keep) ]

\* A call from Python that passes no source: no argument at all, or options
\* only.
BareCalls ==
    { [caller |-> "api", kwargs |-> kw] :
        kw \in { << >>, "sequential" :> TRUE, "retention_count" :> 1 } }

\* The invocations of Spec: a source that exists, either scheme, either
\* extension, any retention count.
Invocations ==
    { ApiCall(source, sequential, uncompressed, keep) :
        source \in {SourceDir, SourceFile},
        sequential \in BOOLEAN, uncompressed \in BOOLEAN, keep \in Keeps }

\* The invocations of SpecSequential: the sequential scheme only, either
\* source, any retention count.
SequentialInvocations ==
    { ApiCall(source, TRUE, FALSE, keep) :
        source \in {SourceDir, SourceFile}, keep \in Keeps }

\* The invocations of SpecRepeat: as those of Spec, and the retention count
\* negative or left out (the default).
RepeatInvocations ==
    { ApiCall(source, sequential, uncompressed, keep) :
        source \in {SourceDir, SourceFile},
        sequential \in BOOLEAN, uncompressed \in BOOLEAN,
        keep \in Keeps \cup {0 - 1, DefaultKeep} }

\* The invocations of SpecCli: the command line with and without --to, in
\* every verbosity mode, and calls from Python with and without a source
\* and a destination; the source may not exist.
CliInvocations ==
    { CliCall(source, destination, sequential, FALSE, keep,
              mode = "verbose", mode = "debug") :
        source \in {SourceFile, SourceMissing},
        destination \in {"None", BackupDir},
        sequential \in BOOLEAN, keep \in {1, DefaultKeep},
        mode \in {"quiet", "verbose", "debug"} }

EntryInvocations ==
    CliInvocations
    \cup BareCalls
    \cup { ApiCall(source, sequential, FALSE, keep) :
             source \in {SourceFile, SourceMissing},
             sequential \in BOOLEAN, keep \in {1, DefaultKeep} }
    \cup { ApiCallTo(source, BackupDir, sequential, keep) :
             source \in {SourceFile, SourceMissing},
             sequential \in BOOLEAN, keep \in {1, DefaultKeep} }

\* ------------------------------------------------------------------------
\* Actions
\* ------------------------------------------------------------------------

Init ==
    /\ fs = (SourceDir :> Content(0, TRUE)) @@ (SourceFile :> Content(0, TRUE))
    /\ clock = StartClock
    /\ runs = 0
    /\ argv = [caller |-> "api", kwargs |-> << >>]
    /\ kwargs = << >>
    /\ pc = "idle"
    /\ todo = << >>
    /\ err = "none"
    /\ status = 0 - 1
    /\ fs0 = fs

\* No invocation is under way: none was made, the last call returned or
\* raised to its Python caller, or the last process exited.
Ready ==
    \/ pc = "idle"
    \/ pc = "exited"
    \/ pc \in {"returned", "raised"} /\ argv.caller = "api"

\* An exception e caught and logged inside __call__: the run goes on to the
\* retention step.
Raise_and_go_on(e) == pc' = "remove" /\ err' = e

\* The invocation ends with exception e.
Raise(e) == pc' = "raised" /\ err' = e

\* BackerUpper.__call__, lines 11-14: the argument check, resolve_source
\* and resolve_destination.  Time has passed since the last invocation.
Call(inv) ==
    /\ Ready
    /\ runs' = runs + 1
    /\ clock' = Tick(clock)
    /\ argv' = inv
    /\ fs0' = fs
    /\ status' = 0 - 1
    /\ todo' = << >>
    /\ fs' = fs
    /\ IF no_arguments(inv.kwargs)
       THEN Raise("ValueError") /\ kwargs' = inv.kwargs
       ELSE IF resolve_source_error(fs, inv.kwargs) # "none"
       THEN Raise(resolve_source_error(fs, inv.kwargs)) /\ kwargs' = inv.kwargs
       ELSE LET kw == Update(inv.kwargs, "source", resolve_source(inv.kwargs))
            IN  IF resolve_destination_error(kw) # "none"
                THEN Raise(resolve_destination_error(kw)) /\ kwargs' = kw
                ELSE /\ kwargs' =
                            Update(kw, "archive", resolve_destination(kw, clock'))
                     /\ pc' = "move"
                     /\ err' = "none"

\* BackerUpper.move_previous_archives, lines 62-87: up to the sorted list of
\* archives to rename.
MovePreviousArchives ==
    /\ pc = "move"
    /\ UNCHANGED << fs, clock, runs, argv, kwargs, status, fs0 >>
    /\ IF ~Get(kwargs, "sequential", FALSE)
       THEN pc' = "create" /\ UNCHANGED << todo, err >>
       ELSE LET archives == gather_matching_archives(fs, kwargs)
            IN  IF archives = {}
                THEN pc' = "create" /\ UNCHANGED << todo, err >>
                ELSE IF \E item \in archives : ~IsInt(marker_of(item))
                THEN Raise("ValueError") /\ UNCHANGED todo
                ELSE /\ todo' \in rotation_order(archives)
                     /\ pc' = "rename"
                     /\ UNCHANGED err

\* One turn of the loop of lines 92-97.
Rename ==
    /\ pc = "rename"
    /\ todo # << >>
    /\ fs' = RenameFile(fs, Head(todo), new_name(Head(todo)))
    /\ todo' = Tail(todo)
    /\ pc' = IF Tail(todo) = << >> THEN "create" ELSE "rename"
    /\ UNCHANGED << clock, runs, argv, kwargs, err, status, fs0 >>

\* Path.rename raises (permission, disk full).
RenameFails ==
    /\ pc = "rename"
    /\ todo # << >>
    /\ Raise("OSError")
    /\ UNCHANGED << fs, clock, runs, argv, kwargs, todo, status, fs0 >>

\* BackerUpper.create_archive: tarfile.open creates or truncates the
\* archive, tar.add fills it.
CreateArchive ==
    /\ pc = "create"
    /\ fs' = WriteFile(fs, kwargs["archive"], Content(runs, TRUE))
    /\ pc' = "remove"
    /\ UNCHANGED << clock, runs, argv, kwargs, todo, err, status, fs0 >>

\* tarfile.open raises and leaves the directory alone, or tar.add raises
\* after tarfile.open created the file.
CreateArchiveFails ==
    /\ pc = "create"
    /\ \E opened \in BOOLEAN :
           fs' = IF opened
                 THEN WriteFile(fs, kwargs["archive"], Content(runs, FALSE))
                 ELSE fs
    /\ Raise("OSError")
    /\ UNCHANGED << clock, runs, argv, kwargs, todo, status, fs0 >>

\* BackerUpper.remove_previous_archives, lines 105-147: up to the list of
\* archives to remove.
RemovePreviousArchives ==
    /\ pc = "remove"
    /\ UNCHANGED << fs, clock, runs, argv, kwargs, status, fs0 >>
    /\ IF nothing_to_remove(retention_count(kwargs))
       THEN pc' = "returned" /\ UNCHANGED << todo, err >>
       ELSE LET archives == gather_matching_archives(fs, kwargs)
                keep == retention_count(kwargs)
            IN  IF Cardinality(archives) <= keep
                THEN pc' = "returned" /\ UNCHANGED << todo, err >>
                ELSE IF ~Get(kwargs, "sequential", FALSE)
                THEN /\ todo' = SubSeq(sorted_reverse(archives), keep + 1,
                                       Cardinality(archives))
                     /\ pc' = "unlink"
                     /\ UNCHANGED err
                ELSE IF \E item \in archives : ~IsInt(marker_of(item))
                THEN Raise("ValueError") /\ UNCHANGED todo
                ELSE /\ \E ordered \in sorted_by_marker(archives, FALSE) :
                            todo' = SubSeq(ordered, keep + 1, Len(ordered))
                     /\ pc' = "unlink"
                     /\ UNCHANGED err

\* One turn of the loop of lines 148-150.
Unlink ==
    /\ pc = "unlink"
    /\ todo # << >>
    /\ fs' = RemoveFile(fs, Head(todo))
    /\ todo' = Tail(todo)
    /\ pc' = IF Tail(todo) = << >> THEN "returned" ELSE "unlink"
    /\ UNCHANGED << clock, runs, argv, kwargs, err, status, fs0 >>

\* item.unlink() raises: the loop ends there.
UnlinkFails ==
    /\ pc = "unlink"
    /\ todo # << >>
    /\ Raise("OSError")
    /\ UNCHANGED << fs, clock, runs, argv, kwargs, todo, status, fs0 >>

\* cli.py, lines 88-95: an exception of main is logged, and raised again
\* only in debug mode; otherwise the script runs to its end.
CliExit ==
    /\ pc \in {"returned", "raised"}
    /\ argv.caller = "cli"
    /\ status' = IF pc = "raised" /\ argv.kwargs["debug"] THEN 1 ELSE 0
    /\ pc' = "exited"
    /\ UNCHANGED << fs, clock, runs, argv, kwargs, todo, err, fs0 >>

\* The steps of an invocation under way.
Step ==
    \/ MovePreviousArchives
    \/ Rename
    \/ RenameFails
    \/ CreateArchive
    \/ CreateArchiveFails
    \/ RemovePreviousArchives
    \/ Unlink
    \/ UnlinkFails

Next ==
    \/ \E inv \in Invocations : runs < MaxRuns /\ Call(inv)
    \/ Step

Spec == Init /\ [][Next]_vars

\* The invocations of Spec, no step failing.
NextRuns ==
    \/ \E inv \in Invocations : runs < MaxRuns /\ Call(inv)
    \/ MovePreviousArchives
    \/ Rename
    \/ CreateArchive
    \/ RemovePreviousArchives
    \/ Unlink

SpecRuns == Init /\ [][NextRuns]_vars

\* One backup run repeatedly with the same arguments, no step failing.
NextRepeat ==
    \/ \E inv \in RepeatInvocations :
           /\ runs < MaxRepeat
           /\ runs = 0 \/ inv = argv
           /\ Call(inv)
    \/ MovePreviousArchives
    \/ Rename
    \/ CreateArchive
    \/ RemovePreviousArchives
    \/ Unlink

SpecRepeat == Init /\ [][NextRepeat]_vars

\* Sequential runs only, any step failing.
NextSequential ==
    \/ \E inv \in SequentialInvocations : runs < MaxSeqRuns /\ Call(inv)
    \/ Step

SpecSequential == Init /\ [][NextSequential]_vars

\* The command line and bare calls, any step failing.
NextCli ==
    \/ \E inv \in EntryInvocations : runs < MaxCalls /\ Call(inv)
    \/ Step
    \/ CliExit

SpecCli == Init /\ [][NextCli]_vars

\* ------------------------------------------------------------------------
\* Properties
\* ------------------------------------------------------------------------

\* The invocation ran all its steps without an exception.
Succeeded == pc \in {"returned", "exited"} /\ err = "none"

\* The arguments as the caller passed them.
KeepArg == Get(argv.kwargs, "retention_count", DefaultKeep)

Sequential == Get(argv.kwargs, "sequential", FALSE)

Min(a, b) == IF a <= b THEN a ELSE b

\* The archives the invocation's pattern matches among files.
Matching(files) == gather_matching_archives(files, kwargs)

\* The runs that wrote the files at paths.
RunsOf(files, paths) == { files[p].run : p \in paths }

\* The k latest of the runs rs.
Newest(rs, k) == { r \in rs : Cardinality({ q \in rs : q > r }) < k }

\* Stem and extension of a name: rsplit(".", 2) without the marker.
StemOf(name) == RSplit(name, 2)[1]

ExtOf(name) == RSplit(name, 2)[Len(RSplit(name, 2))]

\* The integer markers of paths.
Markers(paths) == { ParseInt(marker_of(p)) : p \in paths }

\* Some archive is on disk.
SomeArchive(files) == \E p \in DOMAIN files : files[p].run > 0

\* C1: after a successful run with retention count K >= 1 that found M > K
\* matching archives, exactly K matching archives remain and they are the K
\* most recently created: the new one and the K-1 newest prior ones.
C1_RetentionKeepsNewest ==
    (Succeeded /\ KeepArg >= 1 /\ Cardinality(Matching(fs0)) > KeepArg)
    => /\ Cardinality(Matching(fs)) = KeepArg
       /\ RunsOf(fs, Matching(fs)) =
              Newest(RunsOf(fs0, Matching(fs0)) \cup {runs}, KeepArg)

\* C2: when one backup is run repeatedly from a destination with no matching
\* archive, with retention count K >= 1, the number of matching archives
\* after the n-th run is min(n, K), in either scheme, for a file and for a
\* directory.
C2_CountIsMinOfRunsAndKeep ==
    (Succeeded /\ KeepArg >= 1)
    => Cardinality(Matching(fs)) = Min(runs, KeepArg)

\* C2's case: a run made with as many archives on disk as the retention
\* count allows, so that it had to remove one.
C2_Witness ==
    /\ Succeeded
    /\ KeepArg >= 1
    /\ runs > KeepArg
    /\ Cardinality(Matching(fs0)) = KeepArg
    /\ ~Sequential

\* C3: under the sequential scheme, after n runs of one backup with
\* retention count K >= 1 the markers are exactly 1 .. min(n, K), each once
\* and written without padding, and marker 1 is the archive of the latest
\* run.
C3_MarkersAreContiguous ==
    (Succeeded /\ Sequential /\ KeepArg >= 1)
    => /\ \A p \in Matching(fs) :
              /\ IsInt(marker_of(p))
              /\ marker_of(p) = Str(ParseInt(marker_of(p)))
       /\ Markers(Matching(fs)) = 1..Min(runs, KeepArg)
       /\ Cardinality(Matching(fs)) = Min(runs, KeepArg)
       /\ \A p \in Matching(fs) :
              ParseInt(marker_of(p)) = 1 => fs[p] = Content(runs, TRUE)

\* C3's case: more sequential runs than the retention count of two or more.
C3_Witness ==
    /\ Succeeded
    /\ Sequential
    /\ KeepArg >= 2
    /\ runs > KeepArg
    /\ Cardinality(Matching(fs)) = KeepArg

\* The path of archive p with its marker raised by one.
ShiftedPath(p) ==
    Path(p.dir,
         StemOf(p.name) \o << "." >> \o Str(ParseInt(marker_of(p)) + 1)
             \o << "." >> \o ExtOf(p.name))

\* files with every archive of prior at its shifted path, and the new
\* archive written by run r.
ShiftedAndWritten(files, prior, archive, r) ==
    LET shifted == { ShiftedPath(p) : p \in prior }
        from(q) == CHOOSE p \in prior : ShiftedPath(p) = q
    IN  [ q \in (((DOMAIN files) \ prior) \cup shifted) \cup {archive} |->
            IF q = archive THEN Content(r, TRUE)
            ELSE IF q \in shifted THEN files[from(q)]
            ELSE files[q] ]

\* C4: a sequential run keeps every file until the new archive is written;
\* when retention starts, every prior matching archive is at its marker + 1
\* with its content, the new archive is at marker 1 and nothing else has
\* changed; retention then removes only shifted archives and, once it is
\* done, those with the largest markers are gone, down to the retention
\* count.
C4_RotationShiftsByOne ==
    (Sequential /\ "archive" \in DOMAIN kwargs /\ err = "none")
    => LET prior == Matching(fs0)
           expected ==
               ShiftedAndWritten(fs0, prior, kwargs["archive"], runs)
           gone == (DOMAIN expected) \ (DOMAIN fs)
       IN  /\ marker_of(kwargs["archive"]) = << "1" >>
           /\ pc \in {"move", "rename", "create"}
              => \A p \in DOMAIN fs0 : \E q \in DOMAIN fs : fs[q] = fs0[p]
           /\ pc = "remove"
              => /\ fs = expected
                 /\ Cardinality(DOMAIN fs) = Cardinality(DOMAIN fs0) + 1
           /\ pc \in {"unlink", "returned", "exited"}
              => /\ \A q \in DOMAIN fs :
                        q \in DOMAIN expected /\ fs[q] = expected[q]
                 /\ gone \subseteq { ShiftedPath(p) : p \in prior }
                 /\ kwargs["archive"] \notin gone
           /\ Succeeded
              => /\ \A d \in gone : \A k \in Matching(fs) :
                        ParseInt(marker_of(d)) >= ParseInt(marker_of(k))
                 /\ Cardinality(Matching(fs)) =
                        IF KeepArg >= 1
                        THEN Min(Cardinality(prior) + 1, KeepArg)
                        ELSE Cardinality(prior) + 1

\* C4's case: a sequential run that shifted two or more archives and then
\* removed one of them.
C4_Witness ==
    /\ Succeeded
    /\ Sequential
    /\ Cardinality(Matching(fs0)) >= 2
    /\ Cardinality(Matching(fs)) <= Cardinality(Matching(fs0))

\* C5: with a retention count of zero or less, after N runs of one backup
\* from a destination with no matching archive, the N archives written are
\* all on disk, in either scheme.
C5_NonPositiveKeepsAll ==
    (Succeeded /\ KeepArg <= 0)
    => /\ RunsOf(fs, Matching(fs)) = 1..runs
       /\ Cardinality(Matching(fs)) = runs
       /\ \A p \in Matching(fs) : fs[p].whole

\* C5's case: several runs with a retention count of zero or less.
C5_Witness ==
    /\ Succeeded
    /\ KeepArg <= 0
    /\ runs >= 4
    /\ Cardinality(Matching(fs)) = runs

\* The invocation names a source and leaves the destination out: the key
\* is absent, or the command line passed None.
NoDestination ==
    /\ "source" \in DOMAIN argv.kwargs
    /\ Get(argv.kwargs, "destination", "None") = "None"

\* C6: when no destination is supplied, the command line without --to
\* included, the run goes on to write the archive in the parent directory
\* of the source.
C6_DestinationDefaultsToParent ==
    (runs > 0 /\ NoDestination /\ argv.kwargs["source"] \in DOMAIN fs0)
    => /\ "archive" \in DOMAIN kwargs
       /\ kwargs["archive"].dir = argv.kwargs["source"].dir
       /\ err # "TypeError"

\* The invocation names a source that does not exist.
SourceIsMissing ==
    /\ "source" \in DOMAIN argv.kwargs
    /\ argv.kwargs["source"] \notin DOMAIN fs0

\* C7: a run whose source does not exist fails with FileNotFoundError and
\* the file system is as it was when the run started, in either scheme.
C7_MissingSourceFailsFirst ==
    (runs > 0 /\ SourceIsMissing)
    => /\ pc \in {"raised", "exited"}
       /\ err = "FileNotFoundError"
       /\ fs = fs0

\* C7's case: a sequential run for a missing source, with archives on disk.
C7_Witness ==
    /\ runs > 0
    /\ SourceIsMissing
    /\ Sequential
    /\ err = "FileNotFoundError"
    /\ SomeArchive(fs)

\* The invocation supplies neither a source nor a destination.
NoSourceNoDestination ==
    /\ runs > 0
    /\ "source" \notin DOMAIN argv.kwargs
    /\ "destination" \notin DOMAIN argv.kwargs

\* C8 as stated: every invocation without source and destination fails
\* with the invalid-invocation error (ValueError), whatever other options
\* it passes, and changes no file.
C8_Original ==
    NoSourceNoDestination
    => pc = "raised" /\ err = "ValueError" /\ fs = fs0

\* C8 as amended: every invocation without source and destination fails
\* and changes no file; the error is ValueError when no argument at all is
\* passed, and the TypeError of the source resolution when only other
\* options are passed.
C8_NoSourceFails ==
    NoSourceNoDestination
    => /\ pc = "raised"
       /\ fs = fs0
       /\ err = IF DOMAIN argv.kwargs = {} THEN "ValueError" ELSE "TypeError"

\* C8's case: a call that passes an option and no source, with archives on
\* disk.
C8_Witness ==
    /\ NoSourceNoDestination
    /\ DOMAIN argv.kwargs # {}
    /\ err = "TypeError"
    /\ SomeArchive(fs)

\* C9: a command line run that ends with an error exits non-zero in every
\* verbosity mode, and status 0 means that every step succeeded.
C9_ExitStatusTellsFailure ==
    pc = "exited" => (status = 0 <=> err = "none")

\* The invocation is about to call the matcher: in the rotation of a
\* sequential run, or in the retention with a positive count.
MatcherCalled ==
    \/ pc = "move" /\ Sequential
    \/ pc = "remove" /\ KeepArg > 0

\* C10: whenever the matcher is called, every path it returns has the stem
\* and the extension of the archive path it was given.
C10_MatcherSameSource ==
    MatcherCalled
    => \A p \in Matching(fs) :
           /\ StemOf(p.name) = StemOf(kwargs["archive"].name)
           /\ ExtOf(p.name) = ExtOf(kwargs["archive"].name)

\* C11: while a sequential run rotates, the archives still to rename are in
\* descending marker order (strictly so among those of one stem), the target
\* of the rename about to be made is the name of no file, and until the new
\* archive is written the directory holds as many files as when the run
\* started, markers contiguous or not.
C11_RotationNeverOverwrites ==
    /\ pc = "rename"
       => /\ todo # << >>
          /\ new_name(Head(todo)) \notin DOMAIN fs
          /\ \A i, j \in 1..Len(todo) :
                 i < j
                 => /\ ParseInt(marker_of(todo[i])) >=
                           ParseInt(marker_of(todo[j]))
                    /\ StemOf(todo[i].name) = StemOf(todo[j].name)
                       => ParseInt(marker_of(todo[i])) >
                              ParseInt(marker_of(todo[j]))
    /\ (Sequential /\ pc \in {"rename", "create"})
       => Cardinality(DOMAIN fs) = Cardinality(DOMAIN fs0)

\* C11's case: the rotation has renamed an archive and is about to rename
\* another of the same stem, whose marker is lower by two or more: the
\* markers had a gap, left by a failed run.
C11_Witness ==
    /\ pc = "rename"
    /\ todo # << >>
    /\ fs # fs0
    /\ \E p \in (DOMAIN fs) \ (DOMAIN fs0) :
           /\ StemOf(p.name) = StemOf(Head(todo).name)
           /\ ParseInt(marker_of(p)) > ParseInt(marker_of(Head(todo))) + 2

\* C12: when a sequential run is about to write its archive, the archive's
\* marker is 1 and no file has the archive's name: the write replaces no
\* archive.
C12_WriterFindsMarkerOneFree ==
    (Sequential /\ pc = "create")
    => /\ marker_of(kwargs["archive"]) = << "1" >>
       /\ kwargs["archive"] \notin DOMAIN fs

\* C12's case: the run started with an archive at marker 1, which the
\* rotation has moved.
C12_Witness ==
    /\ Sequential
    /\ pc = "create"
    /\ kwargs["archive"] \in DOMAIN fs0
    /\ \E q \in DOMAIN fs : fs[q] = fs0[kwargs["archive"]]

\* Path p has a name the pattern of the invocation's archive matches.
MatchesPattern(p) ==
    /\ p.dir = kwargs["archive"].dir
    /\ FnMatch(p.name, pattern_of(kwargs["archive"]))

\* The sequential invocation started with a file of its pattern whose marker
\* is not an integer.
MalformedForSequential ==
    /\ Sequential
    /\ "archive" \in DOMAIN kwargs
    /\ \E p \in DOMAIN fs0 : MatchesPattern(p) /\ ~IsInt(marker_of(p))

\* C13: a sequential run that finds a file of its pattern with a marker
\* that is not an integer goes no further than the rotation, where int()
\* raises ValueError before any rename: every file is as it was when the
\* run started, none renamed, written or removed.
C13_MalformedMarkerStopsRotation ==
    MalformedForSequential
    => /\ pc \in {"move", "raised"}
       /\ pc = "raised" => err = "ValueError"
       /\ fs = fs0
       /\ todo = << >>

\* C13's case: the run has failed, and it had archives with integer markers
\* to rotate next to the malformed one.
C13_Witness ==
    /\ MalformedForSequential
    /\ pc = "raised"
    /\ err = "ValueError"
    /\ \E p \in DOMAIN fs0 : MatchesPattern(p) /\ IsInt(marker_of(p))

\* s has the form YYYY-MM-DDTHH-MM-SS-ffffffZ of the timestamp markers.
IsTimestamp(s) ==
    /\ Len(s) = 27
    /\ \A i \in 1..27 :
           IF i \in {5, 8, 14, 17, 20} THEN s[i] = "-"
           ELSE IF i = 11 THEN s[i] = "T"
           ELSE IF i = 27 THEN s[i] = "Z"
           ELSE IsDigit(s[i])

\* The timestamp invocation started with a file of its pattern whose marker
\* is not a timestamp.
MalformedForTimestamp ==
    /\ ~Sequential
    /\ "archive" \in DOMAIN kwargs
    /\ \E p \in DOMAIN fs0 : MatchesPattern(p) /\ ~IsTimestamp(marker_of(p))

\* C14: a timestamp run that finds a file of its pattern with a marker that
\* is not a timestamp never comes to remove archives by the order of the
\* names, and does not end without an error.
C14_TimestampRejectsMalformed ==
    (MalformedForTimestamp /\ KeepArg >= 1)
    => /\ pc # "unlink"
       /\ ~Succeeded

\* C15: when the removal of an archive fails, the retention step ends only
\* if no other archive is left to remove: the archives after the failed one
\* in the list are still attempted.
C15_RemovalsAreIndependent ==
    [][(pc = "unlink" /\ pc' = "raised") => Tail(todo') = << >>]_vars

\* C16: a write that fails leaves no file of the archive's name, so no
\* file on disk is a truncated archive and no run rotates, counts or keeps
\* one.
C16_FailedWriteLeavesNoFile ==
    /\ \A p \in DOMAIN fs : fs[p].whole
    /\ \A p \in DOMAIN fs : MatcherCalled /\ p \in Matching(fs) => fs[p].whole

\* The steps that can follow one another within an invocation: resolve
\* and name (the call), rotate, write, retain, and the exit of the script.
StepOrder ==
    { << "move", "rename" >>, << "move", "create" >>, << "move", "raised" >>,
      << "rename", "rename" >>, << "rename", "create" >>,
      << "rename", "raised" >>,
      << "create", "remove" >>, << "create", "raised" >>,
      << "remove", "unlink" >>, << "remove", "returned" >>,
      << "remove", "raised" >>,
      << "unlink", "unlink" >>, << "unlink", "returned" >>,
      << "unlink", "raised" >>,
      << "returned", "exited" >>, << "raised", "exited" >> }

\* C17: the steps of a run follow one another in the order resolve, name,
\* rotate (sequential runs only), write, retain; a step is entered only
\* with no error so far, the retention only with the archive written by
\* this run in place, and a run ends at its first error; up to and
\* including the write no file is removed, so a run whose rotation or write
\* fails removes none.
C17_StepsInOrder ==
    [][/\ IF runs' # runs
          THEN pc \in {"idle", "returned", "raised", "exited"}
               /\ pc' \in {"move", "raised"}
          ELSE << pc, pc' >> \in StepOrder
       /\ pc' = "rename" => Sequential'
       /\ pc' \in {"move", "rename", "create", "remove", "unlink"}
          => err' = "none"
       /\ (pc' = "remove")
          => /\ pc = "create"
             /\ kwargs["archive"] \in DOMAIN fs'
             /\ fs'[kwargs["archive"]] = Content(runs, TRUE)
       /\ pc \in {"idle", "returned", "raised", "exited",
                   "move", "rename", "create"}
          => \A p \in DOMAIN fs : \E q \in DOMAIN fs' : fs'[q] = fs[p]
      ]_vars

\* C17's case: a sequential run with retention count 1 found two archives,
\* rotated them, and failed in the write: the archives it would have
\* removed are on disk.
C17_Witness ==
    /\ Sequential
    /\ KeepArg = 1
    /\ pc = "raised"
    /\ err = "OSError"
    /\ Cardinality(Matching(fs0)) >= 2
    /\ \A p \in Matching(fs0) : p \notin DOMAIN fs \/ fs[p] # fs0[p]
    /\ \A p \in DOMAIN fs0 : \E q \in DOMAIN fs : fs[q] = fs0[p]

\* C18: in every state of sequential runs, of any two archives the
\* invocation's pattern matches, the one with the lower marker is the one
\* written by the later run, and only that one.
C18_MarkerOrderIsReverseCreation ==
    (Sequential /\ "archive" \in DOMAIN kwargs)
    => \A a, b \in Matching(fs) :
           ParseInt(marker_of(a)) < ParseInt(marker_of(b))
           <=> fs[a].run > fs[b].run

\* Every file the invocation's pattern matched when the run started has a
\* well-formed marker of the run's scheme: a positive integer, or a
\* timestamp not later than the run's own.
WellFormedDestination ==
    \A p \in DOMAIN fs0 :
        MatchesPattern(p)
        => IF Sequential
           THEN IsInt(marker_of(p)) /\ ParseInt(marker_of(p)) > 0
           ELSE /\ IsTimestamp(marker_of(p))
                /\ ~StrLess(marker_of(kwargs["archive"]), marker_of(p))

\* C19: after a successful run with retention count K >= 1 on a
\* destination whose matching files all have well-formed markers, the
\* archive the run wrote is on disk.
C19_NewArchiveSurvives ==
    (Succeeded /\ KeepArg >= 1 /\ WellFormedDestination)
    => /\ kwargs["archive"] \in DOMAIN fs
       /\ fs[kwargs["archive"]] = Content(runs, TRUE)

\* Path p is in the archive's directory and its name is the source's
\* basename, a dot, anything, a dot and the archive's extension.
OfThisRun(p) ==
    LET archive == kwargs["archive"]
        head == kwargs["source"].name \o << "." >>
        tail == << "." >> \o ExtOf(archive.name)
        n == Len(p.name)
    IN  /\ p.dir = archive.dir
        /\ n >= Len(head) + Len(tail)
        /\ SubSeq(p.name, 1, Len(head)) = head
        /\ SubSeq(p.name, n - Len(tail) + 1, n) = tail

\* Path p is an archive of the invocation's source with the other
\* extension.
OtherExtension(p) ==
    /\ p \in DOMAIN fs0
    /\ fs0[p].run > 0
    /\ StemOf(p.name) = kwargs["source"].name
    /\ ExtOf(p.name) # ExtOf(kwargs["archive"].name)

\* C20: at every point of a run, each file that was on disk when the run
\* started and is not of the form basename.*.ext is at its path with its
\* content, the source among them; and after a successful run with
\* retention count K >= 1 the files of that form are min(M + 1, K), M
\* being their number at the start: files of another form are not counted.
C20_OtherFilesUntouched ==
    ("archive" \in DOMAIN kwargs)
    => /\ \A p \in DOMAIN fs0 :
              ~OfThisRun(p) => p \in DOMAIN fs /\ fs[p] = fs0[p]
       /\ kwargs["source"] \in DOMAIN fs
       /\ fs[kwargs["source"]] = fs0[kwargs["source"]]
       /\ (Succeeded /\ KeepArg >= 1)
          => Cardinality({ p \in DOMAIN fs : OfThisRun(p) }) =
                 Min(Cardinality({ p \in DOMAIN fs0 : OfThisRun(p) }) + 1,
                     KeepArg)

\* C20's case: a successful run that removed an archive while an archive
\* of its source with the other extension was on disk.
C20_Witness ==
    /\ Succeeded
    /\ KeepArg >= 1
    /\ \E p \in DOMAIN fs0 : OtherExtension(p)
    /\ \E p \in DOMAIN fs0 : OfThisRun(p) /\ p \notin DOMAIN fs

====
